---- MODULE Spec2Model ----
(***************************************************************************)
(* Model of apps.py: the Start Menu shortcut inventory, the UserAssist     *)
(* usage reader (ROT13 key decoding, count extraction, name prettifying,     *)
(* aggregation), the combined list built and sorted by main(), and the      *)
(* "Save as TXT" export callback.                                           *)
(*                                                                         *)
(* A Python str is a sequence of code points (naturals); a bytes object is  *)
(* a sequence of naturals below 256.                                        *)
(***************************************************************************)
EXTENDS Integers, Sequences, FiniteSets, TLC

(* ---------------------------- bounds ---------------------------------- *)

\* longest value name enumerated exhaustively by the decoding specification
MaxKeyLen == 5

\* most values the two registry sections hold together in the program
\* specification
MaxValues == 2

(* ------------------------ character codes ----------------------------- *)

chBang == 33
chDot == 46
chSlash == 47
chColon == 58
chBackslash == 92
chNewline == 10

\* the code points str.strip() removes, among those below 256
IsSpace(c) == c \in ((9..13) \cup (28..32) \cup {133, 160})

IsUpper(c) == c \in 65..90
IsLower(c) == c \in 97..122

\* str.lower() / str.casefold() on ASCII text
LowerCh(c) == IF IsUpper(c) THEN c + 32 ELSE c
UpperCh(c) == IF IsLower(c) THEN c - 32 ELSE c
Lower(s) == [k \in 1..Len(s) |-> LowerCh(s[k])]
Upper(s) == [k \in 1..Len(s) |-> UpperCh(s[k])]

\* s[a:b] of Python, 0-based, half open, clipped to the string
Slice(s, a, b) ==
    LET hi == IF b > Len(s) THEN Len(s) ELSE b
    IN  IF a >= hi THEN << >> ELSE SubSeq(s, a + 1, hi)

EndsWith(s, suf) ==
    /\ Len(s) >= Len(suf)
    /\ SubSeq(s, Len(s) - Len(suf) + 1, Len(s)) = suf

Contains(s, c) == \E k \in 1..Len(s) : s[k] = c

\* str.find(c, start): 0-based index of the first c at or after start, or -1
Find(s, c, start) ==
    LET hits == {k \in start..(Len(s) - 1) : s[k + 1] = c}
    IN  IF hits = {} THEN -1 ELSE CHOOSE k \in hits : \A m \in hits : k <= m

\* str.strip()
Strip(s) ==
    LET keep == {k \in 1..Len(s) : ~IsSpace(s[k])}
    IN  IF keep = {} THEN << >>
        ELSE LET lo == CHOOSE k \in keep : \A m \in keep : k <= m
                 hi == CHOOSE k \in keep : \A m \in keep : k >= m
             IN  SubSeq(s, lo, hi)

\* codecs.decode(s, 'rot_13'): rotates ASCII letters, keeps everything else
Rot13Ch(c) ==
    IF IsUpper(c) THEN 65 + ((c - 65 + 13) % 26)
    ELSE IF IsLower(c) THEN 97 + ((c - 97 + 13) % 26)
    ELSE c
rot_13(s) == [k \in 1..Len(s) |-> Rot13Ch(s[k])]

(* ----------------------------- ntpath --------------------------------- *)

\* p.replace('/', '\\')
NormSep(p) == [k \in 1..Len(p) |-> IF p[k] = chSlash THEN chBackslash ELSE p[k]]

\* '\\\\?\\UNC\\'
unc_prefix == <<92, 92, 63, 92, 85, 78, 67, 92>>

\* ntpath.splitdrive(p): <<drive, rest>>
splitdrive(p) ==
    LET normp == NormSep(p)
    IN  IF Len(p) < 2 THEN << << >>, p >>
        ELSE IF Slice(normp, 0, 2) = <<chBackslash, chBackslash>>
        THEN LET start == IF Upper(Slice(normp, 0, 8)) = unc_prefix THEN 8 ELSE 2
                 index == Find(normp, chBackslash, start)
                 index2 == Find(normp, chBackslash, index + 1)
             IN  IF index = -1 THEN << p, << >> >>
                 ELSE IF index2 = -1 THEN << p, << >> >>
                 ELSE << Slice(p, 0, index2), Slice(p, index2, Len(p)) >>
        ELSE IF Slice(normp, 1, 2) = <<chColon>>
        THEN << Slice(p, 0, 2), Slice(p, 2, Len(p)) >>
        ELSE << << >>, p >>

\* os.path.basename(p) on Windows: what follows the last separator of the
\* part after the drive
basename(p) ==
    LET rest == splitdrive(p)[2]
        seps == {k \in 1..Len(rest) : rest[k] \in {chSlash, chBackslash}}
        last == IF seps = {} THEN 0 ELSE CHOOSE k \in seps : \A m \in seps : k >= m
    IN  Slice(rest, last, Len(rest))

\* os.path.splitext(filename)[0]: drops what follows the last dot of the last
\* component, unless only dots precede it in that component
splitext_root(p) ==
    LET seps == {k \in 1..Len(p) : p[k] \in {chSlash, chBackslash}}
        sepIndex == IF seps = {} THEN 0 ELSE CHOOSE k \in seps : \A m \in seps : k >= m
        dots == {k \in 1..Len(p) : p[k] = chDot}
        dotIndex == IF dots = {} THEN 0 ELSE CHOOSE k \in dots : \A m \in dots : k >= m
    IN  IF dotIndex > sepIndex
           /\ \E k \in (sepIndex + 1)..(dotIndex - 1) : p[k] # chDot
        THEN SubSeq(p, 1, dotIndex - 1)
        ELSE p

(* ------------------------- prettify_name ------------------------------ *)

\* name.split('!')[-1]
LastPart(name) ==
    LET bangs == {k \in 1..Len(name) : name[k] = chBang}
        last == IF bangs = {} THEN 0 ELSE CHOOSE k \in bangs : \A m \in bangs : k >= m
    IN  Slice(name, last, Len(name))

dotExe == <<46, 101, 120, 101>>

\* the name after the path step
AfterPath(raw_name) ==
    LET name == Strip(raw_name)
    IN  IF Contains(name, chBackslash) THEN basename(name) ELSE name

\* mutant: the part after the last '!' taken even when it is blank
AfterBangAlways(name) ==
    IF Contains(name, chBang) THEN Strip(LastPart(name)) ELSE name

\* the name after the '!' step
AfterBang(name) ==
    IF Contains(name, chBang) /\ Strip(LastPart(name)) # << >>
    THEN Strip(LastPart(name))
    ELSE name

\* mutant: the name kept when stripping '.exe' would leave nothing
StripExeFallback(name) ==
    IF EndsWith(Lower(name), dotExe) /\ Len(name) > 4
    THEN Slice(name, 0, Len(name) - 4)
    ELSE name

\* the name after the '.exe' step
StripExe(name) ==
    IF EndsWith(Lower(name), dotExe) THEN Slice(name, 0, Len(name) - 4) ELSE name

prettify_name(raw_name) == StripExe(AfterBang(AfterPath(raw_name)))

(* --------------------- dict and list helpers -------------------------- *)

\* a dict is the sequence of its <<key, value>> items in insertion order
DictKeys(d) == {d[k][1] : k \in 1..Len(d)}

\* d.get(key, default)
DictGet(d, key, default) ==
    IF key \in DictKeys(d)
    THEN LET k == CHOOSE j \in 1..Len(d) : d[j][1] = key IN d[k][2]
    ELSE default

\* d[key] = value: an existing key keeps its position, a new one goes last
DictSet(d, key, value) ==
    IF key \in DictKeys(d)
    THEN [k \in 1..Len(d) |-> IF d[k][1] = key THEN <<key, value>> ELSE d[k]]
    ELSE Append(d, <<key, value>>)

\* the orders in which iterating over a set can yield its elements
Orderings(S) ==
    {o \in [1..Cardinality(S) -> S] : \A a, b \in 1..Cardinality(S) : o[a] = o[b] => a = b}

SeqsUpTo(S, n) == UNION {[1..k -> S] : k \in 0..n}

\* mutant: a later count replaces the stored one
AccumulateOverwrite(d, name, count) == DictSet(d, name, count)

\* usage_dict[app_name] = usage_dict.get(app_name, 0) + usage_count
Accumulate(d, name, count) == DictSet(d, name, DictGet(d, name, 0) + count)

(* ------------------------ count extraction ---------------------------- *)

\* struct.unpack_from("<I", value_data, 4)[0]
unpack_from_I(value_data, offset) ==
    value_data[offset + 1] + 256 * value_data[offset + 2]
    + 65536 * value_data[offset + 3] + 16777216 * value_data[offset + 4]

\* mutant: the count read at offset 0
ExtractCountOffset0(value_data) ==
    IF Len(value_data) >= 8 THEN unpack_from_I(value_data, 0) ELSE 0

\* the usage_count of one value
ExtractCount(value_data) ==
    IF Len(value_data) >= 8 THEN unpack_from_I(value_data, 4) ELSE 0

(* ------------------------- the environment ---------------------------- *)

\* a Start Menu folder: absent, or present with the files of its tree
FolderPool ==
    { [exists |-> FALSE, files |-> << >>],
      \* "calc.lnk", "readme.txt", "Foo.lnk"
      [exists |-> TRUE,
       files |-> << <<99, 97, 108, 99, 46, 108, 110, 107>>,
                    <<114, 101, 97, 100, 109, 101, 46, 116, 120, 116>>,
                    <<70, 111, 111, 46, 108, 110, 107>> >>],
      \* "foo.LNK"
      [exists |-> TRUE,
       files |-> << <<102, 111, 111, 46, 76, 78, 75>> >>] }

\* registry values (ROT13 value name, binary data) of a UserAssist section;
\* the counts stay below 2^31 so that their sums are exact in the checker,
\* as they are in Python's unbounded integers
RecordPool ==
    { \* "C:\Apps\Foo.EXE", count 3
      [name |-> <<80, 58, 92, 78, 99, 99, 102, 92, 83, 98, 98, 46, 82, 75, 82>>,
       data |-> <<9, 9, 9, 9, 3, 0, 0, 0>>],
      \* "Foo", count 5
      [name |-> <<83, 98, 98>>,
       data |-> <<0, 0, 0, 0, 5, 0, 0, 0, 7, 7>>],
      \* "Pkg!Bar", data of 7 bytes
      [name |-> <<67, 120, 116, 33, 79, 110, 101>>,
       data |-> <<0, 0, 0, 0, 9, 9, 9>>],
      \* "Paint.exe", data of 4 bytes
      [name |-> <<67, 110, 118, 97, 103, 46, 114, 107, 114>>,
       data |-> <<1, 2, 3, 4>>],
      \* ".exe", count 16908036
      [name |-> <<46, 114, 107, 114>>,
       data |-> <<0, 0, 0, 0, 4, 3, 2, 1>>] }

\* a UserAssist section: its Count key is missing, cannot be opened, or holds
\* values
SectionPool ==
    { [status |-> "missing", values |-> << >>],
      [status |-> "denied", values |-> << >>] }
    \cup {[status |-> "ok", values |-> v] : v \in SeqsUpTo(RecordPool, MaxValues)}

\* the characters of the value names the decoding specification enumerates:
\* the ROT13 images of e, x, E, and space, backslash, '!', '.'
KeyAlphabet == {114, 107, 82, 32, 92, 33, 46}

DecodePayloads == { <<1, 2, 3, 4>>, <<0, 0, 0, 0, 2, 1, 0, 0>> }

\* value names of the documented examples, ROT13-encoded:
\* "C:\Apps\Foo.EXE", "Package!Sub!MainApp", "Package!   !"
ExampleKeys ==
    { <<80, 58, 92, 78, 99, 99, 102, 92, 83, 98, 98, 46, 82, 75, 82>>,
      <<67, 110, 112, 120, 110, 116, 114, 33, 70, 104, 111, 33, 90, 110, 118, 97, 78, 99, 99>>,
      <<67, 110, 112, 120, 110, 116, 114, 33, 32, 32, 32, 33>> }

NumGuids == 2
NumPaths == 2

(* ------------------------------ state --------------------------------- *)

VARIABLES
    folders,        \* environment: the two Start Menu folders
    registry,       \* environment: the UserAssist sections, by USERASSIST_GUIDS index
    pc,             \* where main() is
    base_idx,       \* index of base_path in start_menu_paths
    app_names,      \* get_start_menu_shortcuts: the set being built
    guid_idx,       \* index of guid in USERASSIST_GUIDS
    i,              \* get_userassist_usage: EnumValue index
    usage_count,    \* get_userassist_usage: count of the last value read
    app_name,       \* get_userassist_usage: friendly name of the last value read
    usage_dict,     \* get_userassist_usage: the dict being built
    final_list,     \* main: the combined list
    dialog,         \* on_save_as_txt: outcome of the last call
    saved_file      \* content of the file last written by on_save_as_txt

vars == <<folders, registry, pc, base_idx, app_names, guid_idx, i, usage_count,
          app_name, usage_dict, final_list, dialog, saved_file>>

env == <<folders, registry>>

Init ==
    /\ folders \in [1..NumPaths -> FolderPool]
    /\ registry \in {r \in [1..NumGuids -> SectionPool] :
                        Len(r[1].values) + Len(r[2].values) <= MaxValues}
    /\ pc = "walk"
    /\ base_idx = 1
    /\ app_names = {}
    /\ guid_idx = 1
    /\ i = 0
    /\ usage_count = 0
    /\ app_name = << >>
    /\ usage_dict = << >>
    /\ final_list = << >>
    /\ dialog = "none"
    /\ saved_file = << >>

(* ----------------- get_start_menu_shortcuts --------------------------- *)

lnkSuffix == <<46, 108, 110, 107>>

\* the names the files of one folder add to app_names
ShortcutNames(files) ==
    {splitext_root(files[k]) : k \in {j \in 1..Len(files) : EndsWith(Lower(files[j]), lnkSuffix)}}

AfterWalk ==
    /\ base_idx' = base_idx + 1
    /\ pc' = IF base_idx = NumPaths THEN "open" ELSE "walk"

\* a base_path that does not exist is skipped
WalkMissing ==
    /\ pc = "walk"
    /\ ~folders[base_idx].exists
    /\ AfterWalk
    /\ UNCHANGED <<env, app_names, guid_idx, i, usage_count, app_name, usage_dict,
                   final_list, dialog, saved_file>>

\* os.walk over an existing base_path
WalkFolder ==
    /\ pc = "walk"
    /\ folders[base_idx].exists
    /\ app_names' = app_names \cup ShortcutNames(folders[base_idx].files)
    /\ AfterWalk
    /\ UNCHANGED <<env, guid_idx, i, usage_count, app_name, usage_dict,
                   final_list, dialog, saved_file>>

(* -------------------- get_userassist_usage ---------------------------- *)

NextGuid ==
    /\ guid_idx' = guid_idx + 1
    /\ pc' = IF guid_idx = NumGuids THEN "reconcile" ELSE "open"

\* winreg.OpenKey succeeds
OpenKey ==
    /\ pc = "open"
    /\ registry[guid_idx].status = "ok"
    /\ pc' = "enum"
    /\ i' = 0
    /\ UNCHANGED <<env, base_idx, app_names, guid_idx, usage_count, app_name,
                   usage_dict, final_list, dialog, saved_file>>

\* winreg.OpenKey raises FileNotFoundError: caught, next guid
OpenKeyMissing ==
    /\ pc = "open"
    /\ registry[guid_idx].status = "missing"
    /\ NextGuid
    /\ UNCHANGED <<env, base_idx, app_names, i, usage_count, app_name,
                   usage_dict, final_list, dialog, saved_file>>

\* winreg.OpenKey raises PermissionError: no handler catches it
OpenKeyDenied ==
    /\ pc = "open"
    /\ registry[guid_idx].status = "denied"
    /\ pc' = "crashed"
    /\ UNCHANGED <<env, base_idx, app_names, guid_idx, i, usage_count, app_name,
                   usage_dict, final_list, dialog, saved_file>>

\* winreg.EnumValue returns a value: decode it and add its count
EnumValue ==
    /\ pc = "enum"
    /\ i < Len(registry[guid_idx].values)
    /\ LET value == registry[guid_idx].values[i + 1]
           decoded_name == rot_13(value.name)
           count == ExtractCount(value.data)
           name == prettify_name(decoded_name)
       IN  /\ usage_count' = count
           /\ app_name' = name
           /\ usage_dict' = Accumulate(usage_dict, name, count)
    /\ i' = i + 1
    /\ UNCHANGED <<env, pc, base_idx, app_names, guid_idx, final_list, dialog, saved_file>>

\* winreg.EnumValue raises OSError (no more values): break, next guid
EnumValueEnd ==
    /\ pc = "enum"
    /\ i >= Len(registry[guid_idx].values)
    /\ NextGuid
    /\ UNCHANGED <<env, base_idx, app_names, i, usage_count, app_name,
                   usage_dict, final_list, dialog, saved_file>>

(* ------------------------------ main ---------------------------------- *)

\* list.sort(key=...) is stable: before[j][k] says the key of s[j] orders
\* strictly before that of s[k]; elements neither of which is before the
\* other keep their order
StableSort(s, before) ==
    LET rank(k) == 1 + Cardinality({j \in 1..Len(s) :
                        \/ before[j][k]
                        \/ (~before[k][j] /\ j < k)})
    IN  [r \in 1..Len(s) |-> s[CHOOSE k \in 1..Len(s) : rank(k) = r]]

\* lambda x: (not x[2], x[1]), with False as 0 and True as 1
SortKey(x) == <<IF x[3] THEN 0 ELSE 1, x[2]>>

\* tuple comparison a < b of two keys
KeyLess(a, b) == a[1] < b[1] \/ (a[1] = b[1] /\ a[2] < b[2])

\* mutant: sorted without reverse=True
SortFinalAscending(list) ==
    StableSort(list, [j \in 1..Len(list) |-> [k \in 1..Len(list) |->
        KeyLess(SortKey(list[j]), SortKey(list[k]))]])

\* mutant: sorted on the flag alone
SortFinalFlagOnly(list) ==
    StableSort(list, [j \in 1..Len(list) |-> [k \in 1..Len(list) |->
        SortKey(list[k])[1] < SortKey(list[j])[1]]])

\* final_list.sort(key=lambda x: (not x[2], x[1]), reverse=True)
SortFinal(list) ==
    StableSort(list, [j \in 1..Len(list) |-> [k \in 1..Len(list) |->
        KeyLess(SortKey(list[k]), SortKey(list[j]))]])

\* mutant: every dict item appended, shortcut or not
CombinedUnfiltered(order, d) ==
    [k \in 1..Len(order) |-> <<order[k], DictGet(d, order[k], 0), TRUE>>]
    \o [k \in 1..Len(d) |-> <<d[k][1], d[k][2], FALSE>>]

\* the list main() builds before sorting: the set in its iteration order, then
\* the dict items whose name is not in the set
Combined(order, d) ==
    LET names == {order[k] : k \in 1..Len(order)}
        NotShortcut(item) == item[1] \notin names
        rest == SelectSeq(d, NotShortcut)
    IN  [k \in 1..Len(order) |-> <<order[k], DictGet(d, order[k], 0), TRUE>>]
        \o [k \in 1..Len(rest) |-> <<rest[k][1], rest[k][2], FALSE>>]

\* main() steps 3 and 4, then create_ui shows the window; iterating over the
\* set yields its elements in an order the program does not control
Reconcile ==
    /\ pc = "reconcile"
    /\ \E order \in Orderings(app_names) :
          final_list' = SortFinal(Combined(order, usage_dict))
    /\ pc' = "ui"
    /\ UNCHANGED <<env, base_idx, app_names, guid_idx, i, usage_count, app_name,
                   usage_dict, dialog, saved_file>>

(* ------------------------- on_save_as_txt ----------------------------- *)

\* a < b on str
StrLess(a, b) ==
    \E k \in 1..Len(b) :
        /\ \A j \in 1..(k - 1) : j <= Len(a) /\ a[j] = b[j]
        /\ (k > Len(a) \/ a[k] < b[k])

\* mutant: sorted without key=str.casefold
SortNamesCaseSensitive(names) ==
    StableSort(names, [j \in 1..Len(names) |-> [k \in 1..Len(names) |->
        StrLess(names[j], names[k])]])

\* start_menu_only.sort(key=str.casefold)
SortNames(names) ==
    StableSort(names, [j \in 1..Len(names) |-> [k \in 1..Len(names) |->
        StrLess(Lower(names[j]), Lower(names[k]))]])

\* [app_name for (app_name, _, is_start_menu) in final_list if is_start_menu]
StartMenuOnly(list) ==
    LET IsStartMenu(x) == x[3]
        kept == SelectSeq(list, IsStartMenu)
    IN  [k \in 1..Len(kept) |-> kept[k][1]]

\* what the loop of f.write(app_name + "\n") puts in the file
RECURSIVE FileText(_)
FileText(names) ==
    IF names = << >> THEN << >>
    ELSE Head(names) \o <<chNewline>> \o FileText(Tail(names))

DialogOutcomes == {"cancelled", "written", "failed"}

\* the "Save as TXT" button: the dialog is cancelled (empty filename), or the
\* file is opened and written, or open() raises and nothing is written
on_save_as_txt ==
    /\ pc = "ui"
    /\ \E outcome \in DialogOutcomes :
          /\ dialog' = outcome
          /\ saved_file' = IF outcome = "written"
                           THEN FileText(SortNames(StartMenuOnly(final_list)))
                           ELSE saved_file
    /\ UNCHANGED <<env, pc, base_idx, app_names, guid_idx, i, usage_count, app_name,
                   usage_dict, final_list>>

(* -------------------------- specifications ---------------------------- *)

Next ==
    \/ WalkMissing
    \/ WalkFolder
    \/ OpenKey
    \/ OpenKeyMissing
    \/ OpenKeyDenied
    \/ EnumValue
    \/ EnumValueEnd
    \/ Reconcile
    \/ on_save_as_txt

Spec == Init /\ [][Next]_vars

\* get_userassist_usage() entered with no shortcuts, on a registry whose first
\* section holds one value, of any name over KeyAlphabet up to MaxKeyLen or of
\* an example, and whose second section is missing
InitDecode ==
    /\ folders = [k \in 1..NumPaths |-> [exists |-> FALSE, files |-> << >>]]
    /\ \E name \in SeqsUpTo(KeyAlphabet, MaxKeyLen) \cup ExampleKeys, data \in DecodePayloads :
          registry = <<[status |-> "ok", values |-> <<[name |-> name, data |-> data]>>],
                       [status |-> "missing", values |-> << >>]>>
    /\ pc = "open"
    /\ base_idx = NumPaths + 1
    /\ app_names = {}
    /\ guid_idx = 1
    /\ i = 0
    /\ usage_count = 0
    /\ app_name = << >>
    /\ usage_dict = << >>
    /\ final_list = << >>
    /\ dialog = "none"
    /\ saved_file = << >>

NextDecode ==
    \/ OpenKey
    \/ OpenKeyMissing
    \/ EnumValue
    \/ EnumValueEnd

SpecDecode == InitDecode /\ [][NextDecode]_vars

(* --------------------------- properties ------------------------------- *)

sFoo == <<70, 111, 111>>
sfoo == <<102, 111, 111>>
scalc == <<99, 97, 108, 99>>
sBar == <<66, 97, 114>>
sMainApp == <<77, 97, 105, 110, 65, 112, 112>>
sPackageBlank == <<80, 97, 99, 107, 97, 103, 101, 33, 32, 32, 32, 33>>
sPackageSubMainApp ==
    <<80, 97, 99, 107, 97, 103, 101, 33, 83, 117, 98, 33, 77, 97, 105, 110, 65, 112, 112>>

\* the values get_userassist_usage() has read from section g so far
Consumed(g) ==
    IF registry[g].status # "ok" THEN << >>
    ELSE IF g < guid_idx THEN registry[g].values
    ELSE IF g = guid_idx /\ pc = "enum" THEN SubSeq(registry[g].values, 1, i)
    ELSE << >>

ConsumedAll == Consumed(1) \o Consumed(2)

\* the friendly name a value's name normalizes to
NameOf(value) == prettify_name(rot_13(value.name))

\* the unsigned little-endian 32-bit value of payload bytes 4..7
CountField(data) == data[5] + 256 * data[6] + 65536 * data[7] + 16777216 * data[8]

\* the count extracted from a value
CountOf(value) == IF Len(value.data) < 8 THEN 0 ELSE CountField(value.data)

RECURSIVE SumFor(_, _)
SumFor(values, name) ==
    IF values = << >> THEN 0
    ELSE (IF NameOf(Head(values)) = name THEN CountOf(Head(values)) ELSE 0)
         + SumFor(Tail(values), name)

Entries(list) == {list[k] : k \in 1..Len(list)}

\* the list main() would build from the same set and dict under set iteration
\* order `order` and dict insertion order `d`
Rerun(order, d) == SortFinal(Combined(order, d))

\* the insertion orders of a dict holding the items of d
DictOrders(d) == {[k \in 1..Len(d) |-> d[o[k]]] : o \in Orderings(1..Len(d))}

\* the lines of a text, each ended by a newline
Lines(text) ==
    LET nl == {k \in 1..Len(text) : text[k] = chNewline}
        pos(j) == IF j = 0 THEN 0
                  ELSE CHOOSE k \in nl : Cardinality({m \in nl : m < k}) = j - 1
    IN  [j \in 1..Cardinality(nl) |-> SubSeq(text, pos(j - 1) + 1, pos(j) - 1)]

Terminated(text) == text = << >> \/ text[Len(text)] = chNewline

KnownNames == {final_list[k][1] : k \in {j \in 1..Len(final_list) : final_list[j][3]}}

PosInFinal(name) == CHOOSE k \in 1..Len(final_list) : final_list[k][1] = name

\* C1: in the list main() shows, every entry from the Start Menu is before
\* every entry that is not, whatever their counts.
C1_KnownBeforeUnknown ==
    pc = "ui" =>
        \A a, b \in 1..Len(final_list) :
            (final_list[a][3] /\ ~final_list[b][3]) => a < b

\* C2: at every point of get_userassist_usage(), the dict has one key per
\* friendly name some value read so far normalizes to and no other key, and
\* the value stored under a name is the sum of the counts of all values read
\* so far, from either section, that normalize to it.
C2_SumOnCollision ==
    /\ \A a, b \in 1..Len(usage_dict) : usage_dict[a][1] = usage_dict[b][1] => a = b
    /\ DictKeys(usage_dict) = {NameOf(ConsumedAll[k]) : k \in 1..Len(ConsumedAll)}
    /\ \A k \in 1..Len(usage_dict) :
          usage_dict[k][2] = SumFor(ConsumedAll, usage_dict[k][1])

\* "Foo" was read once from each section, with counts 3 and 5, and holds 8
C2_Witness ==
    /\ pc = "reconcile"
    /\ Len(Consumed(1)) = 1 /\ Len(Consumed(2)) = 1
    /\ CountOf(Consumed(1)[1]) > 0 /\ CountOf(Consumed(2)[1]) > 0
    /\ usage_dict = << <<sFoo, 8>> >>

\* C3: the list holds one entry per name of the union of the shortcut set and
\* the dict keys: each shortcut name once, flagged, with usage.get(name, 0);
\* each dict name not exactly in the set once, unflagged, with its count;
\* nothing else and no name twice.
C3_OneEntryPerName ==
    pc = "ui" =>
        /\ \A a, b \in 1..Len(final_list) : final_list[a][1] = final_list[b][1] => a = b
        /\ Entries(final_list) =
              {<<n, DictGet(usage_dict, n, 0), TRUE>> : n \in app_names}
              \cup {<<usage_dict[k][1], usage_dict[k][2], FALSE>> :
                       k \in {j \in 1..Len(usage_dict) : usage_dict[j][1] \notin app_names}}

\* "foo" is a shortcut without usage, "Foo" a used name that is no shortcut
C3_Witness ==
    /\ pc = "ui"
    /\ <<sfoo, 0, TRUE>> \in Entries(final_list)
    /\ \E c \in 1..8 : <<sFoo, c, FALSE>> \in Entries(final_list)

C5_NeverFatal == pc # "crashed"

\* C6 (as claimed): the friendly name of a decoded value is never empty.
C6_NeverEmpty == i > 0 => app_name # << >>

\* C6 (amended): the friendly name of a decoded value is empty exactly when
\* the identifier left by trim, basename and after-last-'!' is empty or is
\* ".exe" in any letter case; there is no fallback.
C6_EmptyWhenErased ==
    i > 0 =>
        LET pre == AfterBang(AfterPath(rot_13(registry[1].values[1].name)))
        IN  (app_name = << >>) <=> (pre = << >> \/ Lower(pre) = dotExe)

\* the value named ".exe" was decoded to the empty name
C6_Witness ==
    /\ i > 0
    /\ rot_13(registry[1].values[1].name) = dotExe
    /\ app_name = << >>
    /\ DictKeys(usage_dict) = {<< >>}

\* C7 (as claimed): the file written holds the flagged names, each once, one
\* per line, in ascending case-insensitive order, and is the same whatever
\* order the list is displayed in.
C7_IndependentOfDisplayOrder ==
    dialog = "written" =>
        /\ Terminated(saved_file)
        /\ Entries(Lines(saved_file)) = KnownNames
        /\ \A order \in Orderings(app_names) :
              FileText(SortNames(StartMenuOnly(Rerun(order, usage_dict)))) = saved_file

\* C7 (amended): the file written holds exactly the flagged names, each once,
\* one per line ended by a newline, in ascending case-insensitive order;
\* names equal under case folding are in their order of display.
C7_ExportSorted ==
    dialog = "written" =>
        LET L == Lines(saved_file)
        IN  /\ Terminated(saved_file)
            /\ Entries(L) = KnownNames
            /\ Len(L) = Cardinality(KnownNames)
            /\ \A a, b \in 1..Len(L) :
                  a < b =>
                     /\ ~StrLess(Lower(L[b]), Lower(L[a]))
                     /\ Lower(L[a]) = Lower(L[b]) => PosInFinal(L[a]) < PosInFinal(L[b])

\* "calc", "foo", "Foo" were written in that order while an unflagged entry
\* is displayed
C7_Witness ==
    /\ dialog = "written"
    /\ Lines(saved_file) = <<scalc, sfoo, sFoo>>
    /\ \E k \in 1..Len(final_list) : ~final_list[k][3]

\* C8 (as claimed): building the list again from the same set and dict gives
\* the identical list, whatever the iteration order of the set and the
\* insertion order of the dict.
C8_IdenticalTwice ==
    pc = "ui" =>
        \A order \in Orderings(app_names), d \in DictOrders(usage_dict) :
            Rerun(order, d) = final_list

\* C8 (amended): building the list again from the same set and dict, in any
\* iteration orders, gives a list with the same entries and, position by
\* position, the same flag and count; only entries that tie on both can
\* change places.
C8_SameUpToTies ==
    pc = "ui" =>
        \A order \in Orderings(app_names), d \in DictOrders(usage_dict) :
            LET L == Rerun(order, d)
            IN  /\ Len(L) = Len(final_list)
                /\ Entries(L) = Entries(final_list)
                /\ \A k \in 1..Len(L) :
                      L[k][2] = final_list[k][2] /\ L[k][3] = final_list[k][3]

\* another iteration order gives a different list, and counts differ in the
\* list
C8_Witness ==
    /\ pc = "ui"
    /\ \E order \in Orderings(app_names) : Rerun(order, usage_dict) # final_list
    /\ \E a, b \in 1..Len(final_list) :
          final_list[a][3] = final_list[b][3] /\ final_list[a][2] # final_list[b][2]

\* C9: among entries with the same flag, counts never increase along the
\* list.
C9_CountsNonIncreasing ==
    pc = "ui" =>
        \A a, b \in 1..Len(final_list) :
            (a < b /\ final_list[a][3] = final_list[b][3])
                => final_list[a][2] >= final_list[b][2]

\* two entries with the same flag and different counts are displayed
C9_Witness ==
    /\ pc = "ui"
    /\ \E a, b \in 1..Len(final_list) :
          /\ a < b
          /\ final_list[a][3] = final_list[b][3]
          /\ final_list[a][2] > final_list[b][2]

\* C10: when the trimmed, basename-reduced identifier holds a '!', the name
\* is the trimmed part after the last '!' if that part is not blank and the
\* identifier itself otherwise, and in both cases a trailing ".exe" is then
\* stripped; "Package!Sub!MainApp" gives "MainApp" and "Package!   !" stays.
C10_AfterLastBang ==
    i > 0 =>
        LET raw == rot_13(registry[1].values[1].name)
            t == AfterPath(raw)
            bangs == {k \in 1..Len(t) : t[k] = chBang}
        IN  /\ bangs # {} =>
                  LET last == CHOOSE k \in bangs : \A m \in bangs : m <= k
                      tail == [k \in 1..(Len(t) - last) |-> t[last + k]]
                  IN  IF \E k \in 1..Len(tail) : ~IsSpace(tail[k])
                      THEN app_name = StripExe(Strip(tail))
                      ELSE app_name = StripExe(t)
            /\ raw = sPackageSubMainApp => app_name = sMainApp
            /\ raw = sPackageBlank => app_name = sPackageBlank

\* "Package!   !" was decoded and kept verbatim
C10_Witness ==
    /\ i > 0
    /\ rot_13(registry[1].values[1].name) = sPackageBlank
    /\ app_name = sPackageBlank

====
